---- MODULE Spec2Model ----
(***************************************************************************)
(* A model of livsmart_kardex (src/main.py): the inventory consolidation   *)
(* script.  Path resolution, the per-warehouse collector, the merger, the  *)
(* spreadsheet formatter and the interactive entry point are translated    *)
(* from the source; the libraries they call (os, pandas, openpyxl) are     *)
(* modelled by the behaviour the source relies on.                         *)
(*                                                                         *)
(* Text that the code inspects character by character (hostnames, the menu *)
(* choice, warehouse identifiers) is a sequence of one-character strings.  *)
(* Text that the code only compares or measures (paths, labels, cell       *)
(* texts) is a TLA+ string.                                                *)
(***************************************************************************)
EXTENDS Integers, Sequences, FiniteSets, TLC

VARIABLES
    pc,             \* position of the running call
    platform,       \* the executing platform
    hostname,       \* socket.gethostname() of the machine
    choice,         \* the text typed at the prompt
    inventory_type, \* main: mapping.get(choice.strip())
    wh_idx,         \* process_inventory: position in the warehouses list
    outcome,        \* per warehouse, what happened to it in the collector
    results,        \* the ordered mapping warehouse -> DataFrame
    merged,         \* merge_inventories' return value
    output_path,    \* main: get_base_output_path()
    disk,           \* the output file on disk (a sheet), or NoFile
    ioLog,          \* the kinds of file I/O performed so far
    calls,          \* the components invoked so far
    raised,         \* an exception left the running call
    arg,            \* the argument of a directly called function
    ret,            \* the path a directly called function returned
    cleaned         \* the name a direct call of get_clean_hostname returned

vars == <<pc, platform, hostname, choice, inventory_type, wh_idx, outcome,
          results, merged, output_path, disk, ioLog, calls, raised, arg, ret,
          cleaned>>

(***************************************************************************)
(* Bounds of the model.                                                    *)
(***************************************************************************)
MaxPieces == 3
MaxChoiceLen == 2
MaxRows == 1
MaxEntries == 2
MaxSheetRows == 2

(***************************************************************************)
(* Python values.                                                          *)
(***************************************************************************)
None == "None"
NoDataFrame == [none |-> TRUE]
NoFile == [nofile |-> TRUE]

\* truthiness of an optional string: None and '' are falsy
Truthy(s) == s # None /\ s # ""

LowerAlpha == <<"a","b","c","d","e","f","g","h","i","j","k","l","m",
                "n","o","p","q","r","s","t","u","v","w","x","y","z">>
UpperAlpha == <<"A","B","C","D","E","F","G","H","I","J","K","L","M",
                "N","O","P","Q","R","S","T","U","V","W","X","Y","Z">>

UpperChar(c) ==
    IF \E i \in 1..26 : LowerAlpha[i] = c
    THEN UpperAlpha[CHOOSE i \in 1..26 : LowerAlpha[i] = c]
    ELSE c

\* str.upper()
upper(s) == [i \in 1..Len(s) |-> UpperChar(s[i])]

\* str.endswith(suffix)
endswith(s, suffix) ==
    /\ Len(s) >= Len(suffix)
    /\ SubSeq(s, Len(s) - Len(suffix) + 1, Len(s)) = suffix

\* str.replace(old, new): every non-overlapping occurrence, left to right
RECURSIVE replace(_, _, _)
replace(s, old, new) ==
    IF Len(s) < Len(old) THEN s
    ELSE IF SubSeq(s, 1, Len(old)) = old
         THEN new \o replace(SubSeq(s, Len(old) + 1, Len(s)), old, new)
         ELSE <<Head(s)>> \o replace(Tail(s), old, new)

IsSpace(c) == c \in {" ", "\t", "\n"}

\* str.lstrip() and str.rstrip() with no argument
RECURSIVE lstrip(_)
lstrip(s) == IF s # <<>> /\ IsSpace(Head(s)) THEN lstrip(Tail(s)) ELSE s

RECURSIVE rstrip(_)
rstrip(s) ==
    IF s # <<>> /\ IsSpace(s[Len(s)]) THEN rstrip(SubSeq(s, 1, Len(s) - 1)) ELSE s

\* str.strip()
strip(s) == rstrip(lstrip(s))

(***************************************************************************)
(* The literals of the source.                                             *)
(***************************************************************************)
OPL == <<"O","P","L">>
E == <<"E">>
MOBU == <<"M","O","B","U">>
warehouses == <<OPL, E, MOBU>>

DotLocal == <<".","l","o","c","a","l">>
JM_MBP == <<"J","M","-","M","B","P">>
JM_MS == <<"J","M","-","M","S">>

\* the platforms a build of Python runs on, and os.name on each
Platforms == {"Windows", "macOS", "Linux"}
os_name(p) == IF p = "Windows" THEN "nt" ELSE "posix"

(***************************************************************************)
(* Utility functions.                                                      *)
(***************************************************************************)
get_clean_hostname(h) ==
    IF endswith(h, DotLocal) THEN replace(h, DotLocal, <<>>) ELSE h

get_base_output_path(p, h) ==
    IF os_name(p) = "nt" THEN "C:\\Users\\josemaria\\Downloads"
    ELSE LET clean == get_clean_hostname(h) IN
         IF clean = JM_MBP THEN "/Users/j.m./Downloads"
         ELSE IF clean = JM_MS THEN "/Users/jm/Downloads"
         ELSE None

\* get_base_path with a branch for macOS only: what the code would be if
\* other platforms were left unresolved
get_base_path_macos_only(p, warehouse) ==
    IF os_name(p) = "nt"
    THEN IF upper(warehouse) = OPL
         THEN "\\\\192.168.10.18\\Bodega General\\LIVSMART\\BODEGA OPL\\STOCK ACTUALIZADO - OPL"
         ELSE IF upper(warehouse) = E
         THEN "\\\\192.168.10.18\\Bodega General\\LIVSMART\\BODEGA E\\STOCK ACTUALIZADO - BODEGA E"
         ELSE IF upper(warehouse) = MOBU
         THEN "\\\\192.168.10.18\\Bodega General\\LIVSMART\\BODEGAS MOBU\\STOCK ACTUALIZADO - MOBU"
         ELSE None
    ELSE IF p # "macOS" THEN None
    ELSE IF upper(warehouse) = OPL
         THEN "/Volumes/Bodega General/LIVSMART/BODEGA OPL/STOCK ACTUALIZADO - OPL/"
         ELSE IF upper(warehouse) = E
         THEN "/Volumes/Bodega General/LIVSMART/BODEGA E/STOCK ACTUALIZADO - BODEGA E/"
         ELSE IF upper(warehouse) = MOBU
         THEN "/Volumes/Bodega General/LIVSMART/BODEGAS MOBU/STOCK ACTUALIZADO - MOBU/"
         ELSE None

get_base_path(p, warehouse) ==
    IF os_name(p) = "nt"
    THEN IF upper(warehouse) = OPL
         THEN "\\\\192.168.10.18\\Bodega General\\LIVSMART\\BODEGA OPL\\STOCK ACTUALIZADO - OPL"
         ELSE IF upper(warehouse) = E
         THEN "\\\\192.168.10.18\\Bodega General\\LIVSMART\\BODEGA E\\STOCK ACTUALIZADO - BODEGA E"
         ELSE IF upper(warehouse) = MOBU
         THEN "\\\\192.168.10.18\\Bodega General\\LIVSMART\\BODEGAS MOBU\\STOCK ACTUALIZADO - MOBU"
         ELSE None
    ELSE IF upper(warehouse) = OPL
         THEN "/Volumes/Bodega General/LIVSMART/BODEGA OPL/STOCK ACTUALIZADO - OPL/"
         ELSE IF upper(warehouse) = E
         THEN "/Volumes/Bodega General/LIVSMART/BODEGA E/STOCK ACTUALIZADO - BODEGA E/"
         ELSE IF upper(warehouse) = MOBU
         THEN "/Volumes/Bodega General/LIVSMART/BODEGAS MOBU/STOCK ACTUALIZADO - MOBU/"
         ELSE None

(***************************************************************************)
(* Inputs of the path functions.                                           *)
(***************************************************************************)
\* hostnames: up to MaxPieces pieces, so that ".local" occurs as a suffix,
\* in the middle, more than once, or not at all
HostPieces == {JM_MBP, JM_MS, DotLocal, <<"x">>, <<"l","o","c","a","l">>}

RECURSIVE HostnamesOf(_)
HostnamesOf(n) ==
    IF n = 0 THEN {<<>>}
    ELSE LET shorter == HostnamesOf(n - 1) IN
         shorter \cup {h \o q : h \in shorter, q \in HostPieces}

Hostnames == HostnamesOf(MaxPieces)

\* warehouse arguments: the three identifiers in every mix of upper and
\* lower case, and identifiers that are none of the three
LowerChar(c) ==
    IF \E i \in 1..26 : UpperAlpha[i] = c
    THEN LowerAlpha[CHOOSE i \in 1..26 : UpperAlpha[i] = c]
    ELSE c

CaseVariants(s) ==
    {[i \in 1..Len(s) |-> IF i \in low THEN LowerChar(s[i]) ELSE s[i]] :
        low \in SUBSET (1..Len(s))}

WarehouseArgs ==
    CaseVariants(OPL) \cup CaseVariants(E) \cup CaseVariants(MOBU)
    \cup {<<>>, <<"O","P">>, <<"X">>, <<"O","P","L","X">>, <<"M","O","B">>,
          <<"B","O","D","E">>, <<" ","E">>}

(***************************************************************************)
(* Cell values and DataFrames (pandas).                                    *)
(* A DataFrame is its column labels in order, its row index, and its rows. *)
(* A row carries, besides its cells, the warehouse file and the position   *)
(* it was read from; the code never reads these two fields.                *)
(***************************************************************************)
NoneCell == [kind |-> "none"]
NaN == [kind |-> "nan"]
Str(s) == [kind |-> "str", v |-> s]
Int_(n) == [kind |-> "int", v |-> n]
Float(whole, tenth) == [kind |-> "float", whole |-> whole, tenth |-> tenth]
Bool(b) == [kind |-> "bool", v |-> b]

Range(s) == {s[i] : i \in 1..Len(s)}

RECURSIVE ToStr(_)
\* the text of a sequence of characters
ToStr(s) == IF s = <<>> THEN "" ELSE Head(s) \o ToStr(Tail(s))

\* the RangeIndex 0..n-1
RangeIndex(n) == [i \in 1..n |-> i - 1]

\* the table pd.read_excel returns for a sheet with these columns and n rows
MakeTable(origin, cols, n) ==
    [columns |-> cols,
     index |-> RangeIndex(n),
     rows |-> [i \in 1..n |->
                 [origin |-> origin, n |-> i - 1,
                  cells |-> [c \in Range(cols) |->
                               IF c = "Bodega" THEN Str("Bodega vieja")
                               ELSE Int_(i - 1)]]]]

\* df[col] = value, for a scalar text value
SetColumn(df, col, value) ==
    LET cols == IF col \in Range(df.columns) THEN df.columns
                ELSE Append(df.columns, col)
    IN [df EXCEPT
          !.columns = cols,
          !.rows = [i \in 1..Len(df.rows) |->
                      [df.rows[i] EXCEPT
                         !.cells = [c \in Range(cols) |->
                                      IF c = col THEN Str(value)
                                      ELSE df.rows[i].cells[c]]]]]

RECURSIVE UnionColumns(_)
\* the union of the frames' columns, in order of first appearance
UnionColumns(dfs) ==
    IF dfs = <<>> THEN <<>>
    ELSE LET before == UnionColumns(SubSeq(dfs, 1, Len(dfs) - 1))
             last == dfs[Len(dfs)].columns
         IN before \o SelectSeq(last, LAMBDA c : c \notin Range(before))

RECURSIVE ConcatRows(_, _)
ConcatRows(dfs, cols) ==
    IF dfs = <<>> THEN <<>>
    ELSE LET df == Head(dfs) IN
         [i \in 1..Len(df.rows) |->
            [df.rows[i] EXCEPT
               !.cells = [c \in Range(cols) |->
                            IF c \in Range(df.columns) THEN df.rows[i].cells[c]
                            ELSE NaN]]]
         \o ConcatRows(Tail(dfs), cols)

RECURSIVE ConcatIndex(_)
ConcatIndex(dfs) ==
    IF dfs = <<>> THEN <<>> ELSE Head(dfs).index \o ConcatIndex(Tail(dfs))

\* pd.concat(dfs, ignore_index=False): the frames' own row labels are kept
concat_keep_index(dfs, ignore_index) ==
    LET cols == UnionColumns(dfs)
        rows == ConcatRows(dfs, cols)
    IN [columns |-> cols, index |-> ConcatIndex(dfs), rows |-> rows]

\* pd.concat(dfs, ignore_index=...) of a non-empty list of frames
concat(dfs, ignore_index) ==
    LET cols == UnionColumns(dfs)
        rows == ConcatRows(dfs, cols)
    IN [columns |-> cols,
        index |-> IF ignore_index THEN RangeIndex(Len(rows)) ELSE ConcatIndex(dfs),
        rows |-> rows]

(***************************************************************************)
(* Spreadsheet loader and collector.                                       *)
(***************************************************************************)
\* a file as the loader finds it: missing, present but unparseable, or
\* present with a table
MissingFile == [status |-> "missing"]
CorruptFile == [status |-> "unparseable"]
GoodFile(df) == [status |-> "ok", table |-> df]

read_excel_file(file) ==
    IF file.status # "missing"
    THEN IF file.status = "ok" THEN file.table ELSE NoDataFrame
    ELSE NoDataFrame

\* list_directory_contents without its try/except
list_directory_contents_no_except(p, warehouse, listing) ==
    IF get_base_path(p, warehouse) = None THEN "returned"
    ELSE IF listing = "ok" THEN "returned"
    ELSE "raised"

\* list_directory_contents: how the call ends, given whether os.listdir
\* succeeds; the except clause turns a failed listing into a message
list_directory_contents(p, warehouse, listing) ==
    IF get_base_path(p, warehouse) = None THEN "returned"
    ELSE IF listing = "ok" THEN "returned"
    ELSE "returned"  \* except Exception: print the error

inventory_files ==
    [LATA |-> [w \in {OPL, E, MOBU} |->
                 IF w = OPL THEN "INVENTARIO LATA VACIA 2025 BODOPL.xlsx"
                 ELSE IF w = E THEN "INVENTARIO LATA VACIA 2025 BODE.xlsx"
                 ELSE "INVENTARIO LATA VACIA 2025 MOBU.xlsx"],
     PREFORMA |-> [w \in {OPL, E, MOBU} |->
                 IF w = OPL THEN "INVENTARIO DE PREFORMA 2025 BODOPL.xlsx"
                 ELSE IF w = E THEN "INVENTARIO DE PREFORMA 2025 BODE.xlsx"
                 ELSE "INVENTARIO DE PREFORMA 2025 BODMOBU.xlsx"],
     PT |-> [w \in {OPL, E, MOBU} |-> "INVENTARIO DE PT.XLSX"]]

\* dict.get(key): None when the key is absent
file_name_of(type, warehouse) ==
    IF warehouse \in DOMAIN inventory_files[type]
    THEN inventory_files[type][warehouse] ELSE None

\* the ordered mapping: a sequence of entries with distinct keys
Keys(d) == {d[i].key : i \in 1..Len(d)}

\* d[key] = df
DictSet(d, key, df) ==
    IF key \in Keys(d)
    THEN [i \in 1..Len(d) |-> IF d[i].key = key THEN [key |-> key, df |-> df] ELSE d[i]]
    ELSE Append(d, [key |-> key, df |-> df])

(***************************************************************************)
(* Merger.                                                                 *)
(***************************************************************************)
\* the label with the plural of the MOBU folder dropped
BodegaLabel_singular(warehouse) ==
    IF upper(warehouse) = OPL THEN "Bodega OPL"
    ELSE IF upper(warehouse) = E THEN "Bodega E"
    ELSE IF upper(warehouse) = MOBU THEN "Bodega MOBU"
    ELSE ToStr(warehouse)

\* the value merge_inventories writes into the Bodega column
BodegaLabel(warehouse) ==
    IF upper(warehouse) = OPL THEN "Bodega OPL"
    ELSE IF upper(warehouse) = E THEN "Bodega E"
    ELSE IF upper(warehouse) = MOBU THEN "Bodegas MOBU"
    ELSE ToStr(warehouse)

\* the mapping after the loop: every table tagged in place
Tagged(inventory_dict) ==
    [i \in 1..Len(inventory_dict) |->
       [key |-> inventory_dict[i].key,
        df |-> SetColumn(inventory_dict[i].df, "Bodega",
                         BodegaLabel(inventory_dict[i].key))]]

\* merge_inventories that gives nothing back when the merged table has no rows
merge_inventories_none_when_empty(inventory_dict) ==
    LET merged_list == [i \in 1..Len(inventory_dict) |-> Tagged(inventory_dict)[i].df]
    IN IF merged_list # <<>> /\ concat(merged_list, TRUE).rows # <<>>
       THEN concat(merged_list, TRUE)
       ELSE NoDataFrame

\* the return value of merge_inventories
merge_inventories(inventory_dict) ==
    LET merged_list == [i \in 1..Len(inventory_dict) |-> Tagged(inventory_dict)[i].df]
    IN IF merged_list # <<>>
       THEN concat(merged_list, TRUE)
       ELSE NoDataFrame

(***************************************************************************)
(* Formatter (openpyxl).                                                   *)
(* A sheet is its rows of cells, row 1 being the header, and its column    *)
(* widths.  A cell has a value, a font, an alignment and a fill.           *)
(***************************************************************************)
Digits == <<"0","1","2","3","4","5","6","7","8","9">>

RECURSIVE NatToStr(_)
NatToStr(n) == IF n < 10 THEN Digits[n + 1] ELSE NatToStr(n \div 10) \o Digits[(n % 10) + 1]

\* str(value)
PyStr(value) ==
    CASE value.kind = "str" -> value.v
      [] value.kind = "int" -> IF value.v < 0 THEN "-" \o NatToStr(-value.v)
                               ELSE NatToStr(value.v)
      [] value.kind = "float" -> NatToStr(value.whole) \o "." \o Digits[value.tenth + 1]
      [] value.kind = "bool" -> IF value.v THEN "True" ELSE "False"
      [] value.kind = "none" -> "None"
      [] value.kind = "nan" -> "nan"

\* bool(value), the test of "if cell.value:"
PyTruthy(value) ==
    CASE value.kind = "str" -> value.v # ""
      [] value.kind = "int" -> value.v # 0
      [] value.kind = "float" -> value.whole # 0 \/ value.tenth # 0
      [] value.kind = "bool" -> value.v
      [] value.kind = "none" -> FALSE
      [] value.kind = "nan" -> TRUE

\* cell.value == "text"
ValueIs(value, text) == value.kind = "str" /\ value.v = text

PlainCell(value) ==
    [value |-> value, font |-> "default", alignment |-> "default", fill |-> "none"]

\* DataFrame.to_excel(path, index=False) followed by load_workbook(path):
\* the column labels in row 1, a missing value as an empty cell
to_excel(df) ==
    [cells |-> <<[j \in 1..Len(df.columns) |-> PlainCell(Str(df.columns[j]))]>>
               \o [i \in 1..Len(df.rows) |->
                     [j \in 1..Len(df.columns) |->
                        LET v == df.rows[i].cells[df.columns[j]] IN
                        PlainCell(IF v.kind = "nan" THEN NoneCell ELSE v)]],
     widths |-> [j \in 1..Len(df.columns) |-> "default"]]

max_row(ws) == Len(ws.cells)
max_column(ws) == Len(ws.cells[1])

RECURSIVE ColumnMaxLength(_, _, _, _)
\* the loop "for cell in col" from row i on, with max_length so far
ColumnMaxLength(ws, j, i, max_length) ==
    IF i > max_row(ws) THEN max_length
    ELSE LET value == ws.cells[i][j].value
             length == Len(PyStr(value))
         IN ColumnMaxLength(ws, j, i + 1,
                IF PyTruthy(value) /\ length > max_length THEN length ELSE max_length)

RECURSIVE HeaderColumn(_, _, _, _)
\* the loop "for cell in ws[1]" from column j on: the last header cell equal
\* to the text wins; 0 stands for None
HeaderColumn(ws, text, j, found) ==
    IF j > max_column(ws) THEN found
    ELSE HeaderColumn(ws, text, j + 1,
             IF ValueIs(ws.cells[1][j].value, text) THEN j ELSE found)

\* the fill chain with the E and MOBU colours exchanged
bodega_fill_swapped(value, fill) ==
    IF ValueIs(value, "Bodega OPL") THEN "ADD8E6"
    ELSE IF ValueIs(value, "Bodega E") THEN "FFA07A"
    ELSE IF ValueIs(value, "Bodegas MOBU") THEN "90EE90"
    ELSE fill

\* the fill of a Bodega cell after the if/elif chain
bodega_fill(value, fill) ==
    IF ValueIs(value, "Bodega OPL") THEN "ADD8E6"
    ELSE IF ValueIs(value, "Bodega E") THEN "90EE90"
    ELSE IF ValueIs(value, "Bodegas MOBU") THEN "FFA07A"
    ELSE fill

format_excel_file(ws) ==
    LET bodega_col == HeaderColumn(ws, "Bodega", 1, 0)
        \* CODIGO WMS is tested in the elif of the Bodega test
        codigo_wms_col == HeaderColumn(ws, "CODIGO WMS", 1, 0)
    IN [cells |->
          [i \in 1..max_row(ws) |->
             [j \in 1..max_column(ws) |->
                LET cell == ws.cells[i][j] IN
                [value |-> IF i >= 2 /\ j = codigo_wms_col
                              /\ cell.value.kind # "none" /\ cell.value.kind # "str"
                           THEN Str(PyStr(cell.value)) ELSE cell.value,
                 font |-> IF i = 1 THEN "header_font" ELSE "minimal_font",
                 alignment |-> IF i = 1 THEN "center" ELSE cell.alignment,
                 fill |-> IF i >= 2 /\ j = bodega_col
                          THEN bodega_fill(cell.value, cell.fill) ELSE cell.fill]]],
        widths |-> [j \in 1..max_column(ws) |-> ColumnMaxLength(ws, j, 1, 0) + 2]]

(***************************************************************************)
(* Orchestrator.                                                           *)
(***************************************************************************)
\* mapping.get(key) with a default category for an unknown key
mapping_get_default(key) ==
    IF key = <<"1">> THEN "LATA"
    ELSE IF key = <<"2">> THEN "PREFORMA"
    ELSE IF key = <<"3">> THEN "PT"
    ELSE "LATA"

\* mapping.get(key)
mapping_get(key) ==
    IF key = <<"1">> THEN "LATA"
    ELSE IF key = <<"2">> THEN "PREFORMA"
    ELSE IF key = <<"3">> THEN "PT"
    ELSE None

\* "if output_path:" left out
after_output_path_always_write(path) == "write"

\* main's branch on the resolved output directory
after_output_path(path) == IF Truthy(path) THEN "write" ELSE "done"

(***************************************************************************)
(* Inputs of a run of main.                                                *)
(***************************************************************************)
ChoiceAlphabet == {"1", "2", "3", "9", " "}

RECURSIVE ChoicesOf(_)
ChoicesOf(n) ==
    IF n = 0 THEN {<<>>}
    ELSE LET shorter == ChoicesOf(n - 1) IN
         shorter \cup {Append(c, ch) : c \in shorter, ch \in ChoiceAlphabet}

Choices == ChoicesOf(MaxChoiceLen)

\* the files a warehouse folder can hold for the chosen category
MainFiles(w) ==
    {MissingFile, CorruptFile,
     GoodFile(MakeTable(w, <<"CODIGO WMS">>, 1)),
     GoodFile(MakeTable(w, <<"Bodega", "CODIGO WMS">>, 2))}

MainHostnames == {JM_MBP, JM_MS \o DotLocal, <<"x">>}

Pending == [base |-> "pending", listing |-> "pending", file |-> "pending"]

Quiet ==
    /\ hostname = <<>>
    /\ choice = <<>>
    /\ inventory_type = None
    /\ wh_idx = 0
    /\ outcome = [w \in Range(warehouses) |-> Pending]
    /\ results = <<>>
    /\ merged = NoDataFrame
    /\ output_path = None
    /\ disk = NoFile
    /\ ioLog = {}
    /\ calls = {}
    /\ raised = FALSE
    /\ arg = <<>>
    /\ ret = None
    /\ cleaned = <<>>

(***************************************************************************)
(* main, step by step.                                                     *)
(***************************************************************************)
InitMain ==
    /\ pc = "prompt"
    /\ platform \in Platforms
    /\ Quiet

\* main up to the call of process_inventory, and the entry of that call
MainPrompt ==
    /\ pc = "prompt"
    /\ \E c \in Choices :
         LET type == mapping_get(strip(c)) IN
         /\ choice' = c
         /\ inventory_type' = type
         /\ IF ~Truthy(type)
            THEN /\ pc' = "done"
                 /\ UNCHANGED <<calls, wh_idx>>
            ELSE /\ calls' = calls \cup {"process_inventory"}
                 /\ IF type \notin DOMAIN inventory_files
                    THEN pc' = "collected" /\ UNCHANGED wh_idx
                    ELSE pc' = "collect" /\ wh_idx' = 1
    /\ UNCHANGED <<platform, hostname, outcome, results, merged, output_path,
                   disk, ioLog, raised, arg, ret, cleaned>>

\* one iteration of the loop of process_inventory
ProcessWarehouse ==
    /\ pc = "collect"
    /\ LET warehouse == warehouses[wh_idx]
           base_path == get_base_path(platform, warehouse)
           next_pc == IF wh_idx = Len(warehouses) THEN "collected" ELSE "collect"
       IN
       IF base_path = None
       THEN /\ outcome' = [outcome EXCEPT ![warehouse] =
                             [base |-> "unresolved", listing |-> "skipped", file |-> "skipped"]]
            /\ ioLog' = ioLog \cup {"resolve"}
            /\ pc' = next_pc
            /\ wh_idx' = wh_idx + 1
            /\ UNCHANGED <<results, raised>>
       ELSE \E listing \in {"ok", "error"}, file \in MainFiles(warehouse) :
            IF list_directory_contents(platform, warehouse, listing) = "raised"
            THEN /\ outcome' = [outcome EXCEPT ![warehouse] =
                                  [base |-> "resolved", listing |-> listing, file |-> "skipped"]]
                 /\ ioLog' = ioLog \cup {"resolve", "listdir"}
                 /\ raised' = TRUE
                 /\ pc' = "crashed"
                 /\ UNCHANGED <<results, wh_idx>>
            ELSE LET file_name == file_name_of(inventory_type, warehouse) IN
                 IF ~Truthy(file_name)
                 THEN /\ outcome' = [outcome EXCEPT ![warehouse] =
                                       [base |-> "resolved", listing |-> listing, file |-> "skipped"]]
                      /\ ioLog' = ioLog \cup {"resolve", "listdir"}
                      /\ pc' = next_pc
                      /\ wh_idx' = wh_idx + 1
                      /\ UNCHANGED <<results, raised>>
                 ELSE LET df == read_excel_file(file) IN
                      /\ outcome' = [outcome EXCEPT ![warehouse] =
                                       [base |-> "resolved", listing |-> listing,
                                        file |-> file.status]]
                      /\ ioLog' = ioLog \cup {"resolve", "listdir", "exists"}
                                    \cup (IF file.status # "missing" THEN {"read"} ELSE {})
                      /\ results' = IF df # NoDataFrame
                                    THEN DictSet(results, warehouse, df) ELSE results
                      /\ pc' = next_pc
                      /\ wh_idx' = wh_idx + 1
                      /\ UNCHANGED raised
    /\ UNCHANGED <<platform, hostname, choice, inventory_type, merged, output_path,
                   disk, calls, arg, ret, cleaned>>

\* main from the return of process_inventory to the preview of the merge
MainMerge ==
    /\ pc = "collected"
    /\ IF results # <<>>
       THEN /\ calls' = calls \cup {"merge_inventories"}
            /\ merged' = merge_inventories(results)
            /\ results' = Tagged(results)
            /\ pc' = IF merge_inventories(results) # NoDataFrame THEN "save" ELSE "done"
       ELSE /\ pc' = "done"
            /\ UNCHANGED <<calls, merged, results>>
    /\ UNCHANGED <<platform, hostname, choice, inventory_type, wh_idx, outcome,
                   output_path, disk, ioLog, raised, arg, ret, cleaned>>

\* main: get_base_output_path() and, when it resolved, to_excel; the write
\* either succeeds or raises
MainSave ==
    /\ pc = "save"
    /\ \E h \in MainHostnames, write_ok \in BOOLEAN :
         LET path == get_base_output_path(platform, h) IN
         /\ hostname' = IF os_name(platform) = "nt" THEN hostname ELSE h
         /\ output_path' = path
         /\ IF after_output_path(path) = "write"
            THEN IF write_ok
                 THEN /\ disk' = to_excel(merged)
                      /\ ioLog' = ioLog \cup {"resolve_output", "write"}
                      /\ pc' = "format"
                      /\ UNCHANGED raised
                 ELSE /\ ioLog' = ioLog \cup {"resolve_output", "write"}
                      /\ raised' = TRUE
                      /\ pc' = "crashed"
                      /\ UNCHANGED disk
            ELSE /\ ioLog' = ioLog \cup {"resolve_output"}
                 /\ pc' = "done"
                 /\ UNCHANGED <<disk, raised>>
    /\ UNCHANGED <<platform, choice, inventory_type, wh_idx, outcome, results,
                   merged, calls, arg, ret, cleaned>>

\* main: format_excel_file(output_file)
MainFormat ==
    /\ pc = "format"
    /\ disk' = format_excel_file(disk)
    /\ calls' = calls \cup {"format_excel_file"}
    /\ ioLog' = ioLog \cup {"format"}
    /\ pc' = "done"
    /\ UNCHANGED <<platform, hostname, choice, inventory_type, wh_idx, outcome,
                   results, merged, output_path, raised, arg, ret, cleaned>>

NextMain == MainPrompt \/ ProcessWarehouse \/ MainMerge \/ MainSave \/ MainFormat

SpecMain == InitMain /\ [][NextMain]_vars

(***************************************************************************)
(* Direct calls of the path functions.                                     *)
(***************************************************************************)
InitPath ==
    /\ pc = "idle"
    /\ platform \in Platforms
    /\ Quiet

CallGetBasePath ==
    /\ pc = "idle"
    /\ \E warehouse \in WarehouseArgs :
         /\ arg' = warehouse
         /\ ret' = get_base_path(platform, warehouse)
    /\ pc' = "get_base_path"
    /\ UNCHANGED <<platform, hostname, choice, inventory_type, wh_idx, outcome,
                   results, merged, output_path, disk, ioLog, calls, raised, cleaned>>

CallGetCleanHostname ==
    /\ pc = "idle"
    /\ \E h \in Hostnames :
         /\ hostname' = h
         /\ cleaned' = get_clean_hostname(h)
    /\ pc' = "get_clean_hostname"
    /\ UNCHANGED <<platform, choice, inventory_type, wh_idx, outcome, results,
                   merged, output_path, disk, ioLog, calls, raised, arg, ret>>

CallGetBaseOutputPath ==
    /\ pc = "idle"
    /\ \E h \in Hostnames :
         /\ hostname' = IF os_name(platform) = "nt" THEN hostname ELSE h
         /\ ret' = get_base_output_path(platform, h)
    /\ pc' = "get_base_output_path"
    /\ UNCHANGED <<platform, choice, inventory_type, wh_idx, outcome, results,
                   merged, output_path, disk, ioLog, calls, raised, arg, cleaned>>

NextPath == CallGetBasePath \/ CallGetCleanHostname \/ CallGetBaseOutputPath

SpecPath == InitPath /\ [][NextPath]_vars

(***************************************************************************)
(* Direct calls of merge_inventories.                                      *)
(***************************************************************************)
MergeKeys == {OPL, E, MOBU, <<"o","p","l">>, <<"X">>}

MergeColumnChoices == {<<"A">>, <<"B", "A">>, <<"Bodega", "A">>}

\* a table's shape: its columns and its number of rows
TableShapes == MergeColumnChoices \X (0..MaxRows)

RECURSIVE KeySeqsOf(_)
\* the sequences of at most n distinct keys
KeySeqsOf(n) ==
    IF n = 0 THEN {<<>>}
    ELSE LET shorter == KeySeqsOf(n - 1) IN
         shorter \cup UNION {{Append(ks, k) : k \in MergeKeys \ Range(ks)} : ks \in shorter}

\* the ordered mapping with these keys and a table of the given shape each
Mapping(keys, shapes) ==
    [i \in 1..Len(keys) |->
       [key |-> keys[i], df |-> MakeTable(keys[i], shapes[i][1], shapes[i][2])]]

InitMerge ==
    /\ pc = "idle"
    /\ platform \in Platforms
    /\ Quiet

CallMergeInventories ==
    /\ pc = "idle"
    /\ \E keys \in KeySeqsOf(MaxEntries) :
       \E shapes \in [1..Len(keys) -> TableShapes] :
         LET inventory_dict == Mapping(keys, shapes) IN
         /\ arg' = inventory_dict
         /\ results' = Tagged(inventory_dict)
         /\ merged' = merge_inventories(inventory_dict)
    /\ calls' = calls \cup {"merge_inventories"}
    /\ pc' = "merge_inventories"
    /\ UNCHANGED <<platform, hostname, choice, inventory_type, wh_idx, outcome,
                   output_path, disk, ioLog, raised, ret, cleaned>>

NextMerge == CallMergeInventories

SpecMerge == InitMerge /\ [][NextMerge]_vars

(***************************************************************************)
(* Direct calls of format_excel_file.                                      *)
(***************************************************************************)
HeaderChoices ==
    {<<"Bodega">>, <<"ID", "Bodega">>, <<"Bodega", "CODIGO WMS">>, <<"ID">>,
     <<"CODIGO WMS", "ID">>}

ColumnValues(header) ==
    IF header = "Bodega"
    THEN {NoneCell, Str("Bodega OPL"), Str("Bodega E"), Str("Bodegas MOBU"),
          Str("Bodega X"), Bool(FALSE)}
    ELSE IF header = "CODIGO WMS"
    THEN {NoneCell, Str("007"), Int_(7), Int_(0)}
    ELSE {NoneCell, Str("Bodega E"), Float(0, 0), Bool(FALSE), Int_(12345)}

AllColumnValues == UNION {ColumnValues(h) : h \in {"Bodega", "CODIGO WMS", "ID"}}

SheetRows(header) ==
    {r \in [1..Len(header) -> AllColumnValues] :
        \A j \in 1..Len(header) : r[j] \in ColumnValues(header[j])}

\* a sheet as to_excel writes it: a header of distinct labels, the data
\* rows, no fills yet
Sheet(header, body) ==
    [cells |-> <<[j \in 1..Len(header) |-> PlainCell(Str(header[j]))]>>
               \o [i \in 1..Len(body) |->
                     [j \in 1..Len(header) |-> PlainCell(body[i][j])]],
     widths |-> [j \in 1..Len(header) |-> "default"]]

InitFormat ==
    /\ pc = "idle"
    /\ platform \in Platforms
    /\ Quiet

CallFormatExcelFile ==
    /\ pc = "idle"
    /\ \E header \in HeaderChoices, n \in 0..MaxSheetRows :
       \E body \in [1..n -> SheetRows(header)] :
         LET ws == Sheet(header, body) IN
         /\ arg' = ws
         /\ disk' = format_excel_file(ws)
    /\ calls' = calls \cup {"format_excel_file"}
    /\ ioLog' = ioLog \cup {"format"}
    /\ pc' = "format_excel_file"
    /\ UNCHANGED <<platform, hostname, choice, inventory_type, wh_idx, outcome,
                   results, merged, output_path, raised, ret, cleaned>>

NextFormat == CallFormatExcelFile

SpecFormat == InitFormat /\ [][NextFormat]_vars

(***************************************************************************)
(* Properties.                                                             *)
(***************************************************************************)
KnownWarehouses == {OPL, E, MOBU}

Loaded(w) == outcome[w].base = "resolved" /\ outcome[w].file = "ok"

\* C1: process_inventory never raises, and at every point of the collector,
\* and ever after, the keys of the mapping are exactly the warehouses whose
\* base path resolved and whose file loaded; once the loop has ended every
\* warehouse has been visited, whatever happened at the others.
C1_CollectorKeys ==
    /\ Keys(results) = {w \in KnownWarehouses : Loaded(w)}
    /\ raised => "resolve_output" \in ioLog
    /\ pc = "crashed" => "resolve_output" \in ioLog
    /\ pc \in {"collected", "save", "format"} =>
          \A w \in KnownWarehouses : outcome[w] # Pending
    /\ pc = "collect" =>
          \A i \in 1..Len(warehouses) : (outcome[warehouses[i]] # Pending) <=> (i < wh_idx)

\* the collector has returned with E's file missing, MOBU's file corrupt and
\* OPL loaded although its directory listing failed
C1_Witness ==
    /\ pc = "collected"
    /\ Keys(results) = {OPL}
    /\ outcome[OPL].listing = "error"
    /\ outcome[E].file = "missing"
    /\ outcome[MOBU].file = "unparseable"

ExpectedLabel(w) ==
    IF w = OPL THEN "Bodega OPL"
    ELSE IF w = E THEN "Bodega E"
    ELSE IF w = MOBU THEN "Bodegas MOBU"
    ELSE "?"

\* C2: in a run of main, every row of the merged table has one Bodega cell,
\* a non-empty text of the three labels, the label of the warehouse whose
\* file the row was read from, also when the file had a Bodega column.
C2_BodegaLabels ==
    merged # NoDataFrame =>
        /\ Cardinality({j \in 1..Len(merged.columns) : merged.columns[j] = "Bodega"}) = 1
        /\ \A i \in 1..Len(merged.rows) :
             LET cell == merged.rows[i].cells["Bodega"] IN
             /\ cell.kind = "str"
             /\ cell.v # ""
             /\ cell.v \in {"Bodega OPL", "Bodega E", "Bodegas MOBU"}
             /\ cell.v = ExpectedLabel(merged.rows[i].origin)

\* a merged table of two warehouses' rows, one file with its own Bodega column
C2_Witness ==
    /\ merged # NoDataFrame
    /\ merged.columns[1] = "Bodega"
    /\ \E i, k \in 1..Len(merged.rows) :
         /\ merged.rows[i].origin = E
         /\ merged.rows[k].origin = MOBU

RECURSIVE RowsBefore(_, _)
\* the number of rows of the first i tables of a mapping
RowsBefore(d, i) == IF i = 0 THEN 0 ELSE RowsBefore(d, i - 1) + Len(d[i].df.rows)

C4_NoneIffEmpty ==
    pc = "merge_inventories" => ((merged = NoDataFrame) <=> (arg = <<>>))

\* a mapping whose tables all have no rows still gives a table
C4_Witness ==
    /\ pc = "merge_inventories"
    /\ Len(arg) = 2
    /\ \A i \in 1..Len(arg) : arg[i].df.rows = <<>>
    /\ merged # NoDataFrame
    /\ merged.rows = <<>>

IsDigitKey(ch) == ch \in {"1", "2", "3"}

\* the choice is one of 1, 2, 3 with nothing but whitespace around it
ValidChoice(c) ==
    \E i \in 1..Len(c) :
        /\ IsDigitKey(c[i])
        /\ \A k \in 1..Len(c) : k # i => IsSpace(c[k])

\* main has gone past the point where it gives up without an output file
NothingToWrite ==
    \/ pc \notin {"prompt", "collect", "collected"} /\ ValidChoice(choice) /\ results = <<>>
    \/ pc \notin {"prompt", "collect", "collected"} /\ ValidChoice(choice)
         /\ merged = NoDataFrame
    \/ "resolve_output" \in ioLog /\ ~Truthy(output_path)

\* C5: when the output directory does not resolve, or the merger gives no
\* table, or the collector gives no warehouse, main has returned normally
\* with no file written and the formatter not called; a file is written
\* only for a valid choice, a non-empty mapping and a resolved directory,
\* and the formatter only runs on a written file.
C5_NoOutput ==
    /\ NothingToWrite =>
          /\ pc = "done"
          /\ ~raised
          /\ disk = NoFile
          /\ "write" \notin ioLog
          /\ "format_excel_file" \notin calls
    /\ ("write" \in ioLog \/ disk # NoFile) =>
          /\ ValidChoice(choice)
          /\ results # <<>>
          /\ merged # NoDataFrame
          /\ "resolve_output" \in ioLog
          /\ Truthy(output_path)
    /\ "format_excel_file" \in calls => disk # NoFile

\* tables were merged on a machine of an unknown host: no file, normal return
C5_Witness ==
    /\ pc = "done"
    /\ platform = "macOS"
    /\ hostname = <<"x">>
    /\ merged # NoDataFrame
    /\ output_path = None
    /\ disk = NoFile
    /\ ~raised

\* C6: after a choice that is not 1, 2 or 3 once stripped, main has returned
\* normally and has done no file I/O and called no component.
C6_InvalidChoice ==
    (pc # "prompt" /\ ~ValidChoice(choice)) =>
        /\ pc = "done"
        /\ ~raised
        /\ ioLog = {}
        /\ calls = {}
        /\ results = <<>>
        /\ merged = NoDataFrame
        /\ disk = NoFile
        /\ \A w \in KnownWarehouses : outcome[w] = Pending

\* the choice " 9" was typed
C6_Witness ==
    /\ pc = "done"
    /\ choice = <<" ", "9">>
    /\ ioLog = {}

SetMax(S) == IF S = {} THEN 0 ELSE CHOOSE m \in S : \A x \in S : x <= m

\* C7: after format_excel_file every column is as wide as the longest text
\* of its non-empty cells, header included, plus 2; a cell holding 0, 0.0
\* or False is non-empty.
C7_ColumnWidths ==
    pc = "format_excel_file" =>
        \A j \in 1..Len(disk.widths) :
            disk.widths[j] =
                2 + SetMax({Len(PyStr(disk.cells[i][j].value)) :
                              i \in {k \in 1..Len(disk.cells) :
                                       disk.cells[k][j].value.kind # "none"}})

Recognized(warehouse) == {w \in KnownWarehouses : upper(warehouse) = w}

WindowsPath(w) ==
    IF w = OPL
    THEN "\\\\192.168.10.18\\Bodega General\\LIVSMART\\BODEGA OPL\\STOCK ACTUALIZADO - OPL"
    ELSE IF w = E
    THEN "\\\\192.168.10.18\\Bodega General\\LIVSMART\\BODEGA E\\STOCK ACTUALIZADO - BODEGA E"
    ELSE "\\\\192.168.10.18\\Bodega General\\LIVSMART\\BODEGAS MOBU\\STOCK ACTUALIZADO - MOBU"

MacPath(w) ==
    IF w = OPL THEN "/Volumes/Bodega General/LIVSMART/BODEGA OPL/STOCK ACTUALIZADO - OPL/"
    ELSE IF w = E THEN "/Volumes/Bodega General/LIVSMART/BODEGA E/STOCK ACTUALIZADO - BODEGA E/"
    ELSE "/Volumes/Bodega General/LIVSMART/BODEGAS MOBU/STOCK ACTUALIZADO - MOBU/"

\* C8 as stated: the fixed path on Windows and on macOS, None for an
\* unrecognized warehouse and on any other platform.
C8_NoneOnOtherPlatforms ==
    pc = "get_base_path" =>
        IF Recognized(arg) = {} \/ platform \notin {"Windows", "macOS"}
        THEN ret = None
        ELSE \A w \in Recognized(arg) :
                ret = IF platform = "Windows" THEN WindowsPath(w) ELSE MacPath(w)

\* C8, amended: get_base_path returns the fixed Windows path of a known
\* warehouse on Windows and the fixed macOS path of it on every other
\* platform; it returns None exactly for a warehouse that is, upper-cased,
\* none of OPL, E, MOBU.
C8_PathOrNone ==
    pc = "get_base_path" =>
        IF Recognized(arg) = {}
        THEN ret = None
        ELSE \A w \in Recognized(arg) :
                ret = IF platform = "Windows" THEN WindowsPath(w) ELSE MacPath(w)

\* get_base_path("mobu") on Linux gave the macOS path
C8_Witness ==
    /\ pc = "get_base_path"
    /\ platform = "Linux"
    /\ arg = <<"m","o","b","u">>
    /\ ret = MacPath(MOBU)

ExpectedFill(value) ==
    IF value.kind # "str" THEN "none"
    ELSE IF value.v = "Bodega OPL" THEN "ADD8E6"
    ELSE IF value.v = "Bodega E" THEN "90EE90"
    ELSE IF value.v = "Bodegas MOBU" THEN "FFA07A"
    ELSE "none"

HasBodegaHeader(ws) == \E j \in 1..Len(ws.cells[1]) : ValueIs(ws.cells[1][j].value, "Bodega")

\* C9: after format_excel_file on a sheet with a Bodega header, a data cell
\* of that column is light blue, light green or light salmon as its value is
\* "Bodega OPL", "Bodega E" or "Bodegas MOBU" and has no fill otherwise; the
\* header and the other columns have no fill.
C9_BodegaFills ==
    (pc = "format_excel_file" /\ HasBodegaHeader(arg)) =>
        \A i \in 1..Len(disk.cells) : \A j \in 1..Len(disk.cells[i]) :
            disk.cells[i][j].fill =
                IF i >= 2 /\ ValueIs(arg.cells[1][j].value, "Bodega")
                THEN ExpectedFill(disk.cells[i][j].value)
                ELSE "none"

\* a green Bodega cell, an unfilled Bodega cell of another text, and the
\* text "Bodega E" unfilled in another column
C9_Witness ==
    /\ pc = "format_excel_file"
    /\ Len(disk.cells) = 3
    /\ Len(disk.cells[1]) = 2
    /\ ValueIs(disk.cells[1][2].value, "Bodega")
    /\ ValueIs(disk.cells[2][2].value, "Bodega E")
    /\ disk.cells[2][2].fill = "90EE90"
    /\ ValueIs(disk.cells[3][2].value, "Bodega X")
    /\ disk.cells[3][2].fill = "none"
    /\ ValueIs(disk.cells[2][1].value, "Bodega E")
    /\ disk.cells[2][1].fill = "none"

\* the hostname without a trailing ".local", every other character kept
WithoutLocalSuffix(h) ==
    IF endswith(h, DotLocal) THEN SubSeq(h, 1, Len(h) - Len(DotLocal)) ELSE h

\* C10: get_clean_hostname removes a trailing ".local" and nothing else, so
\* that off Windows get_base_output_path resolves exactly for JM-MBP and
\* JM-MS, with or without the suffix.
C10_SuffixOnly ==
    /\ pc = "get_clean_hostname" => cleaned = WithoutLocalSuffix(hostname)
    /\ (pc = "get_base_output_path" /\ platform # "Windows") =>
          ((ret # None) <=>
             hostname \in {JM_MBP, JM_MS, JM_MBP \o DotLocal, JM_MS \o DotLocal})

====
